---- MODULE Spec2Model ----
(***************************************************************************)
(* Model of gtfs/bus2train/station_access.py: the seven-stage              *)
(* StationAccessFinder pipeline (run_station_access) and the downstream    *)
(* filter_station_access_results.                                          *)
(*                                                                         *)
(* Dates are day numbers; DayOfWeek(d) is Python's date.weekday() of the   *)
(* day (Monday = 0).  Arrival offsets are seconds.  The values Python      *)
(* holds as floats after a true division are IEEE 754 binary64 values,     *)
(* computed with round to nearest, ties to even.  Python dicts are         *)
(* insertion-ordered association lists.                                    *)
(***************************************************************************)
EXTENDS Integers, Sequences, FiniteSets, TLC

VARIABLES
    pc,                      \* position of run_station_access
    station_distance,        \* what load_train_station_distance returns
    gtfs_trips,              \* the feed's trips, in gtfs.trips.values() order
    route_stories,           \* self.route_stories
    to_station,              \* self.to_station
    start_date,              \* self.start_date
    end_date,                \* self.end_date
    stops_near_stations,     \* self.stops_near_stations
    extended_route_stories,  \* self.extended_route_stories
    extended_routes,         \* self.extended_routes
    stop_and_stations,       \* self.stop_and_stations
    exported,                \* rows written to station_access.txt
    f_pc,                    \* position of filter_station_access_results
    f_input,                 \* rows of station_access.txt read by the filter
    f_args,                  \* the filter's keyword arguments
    f_surviving,             \* records after the max-time, include, exclude steps
    f_nearest,               \* records handed to the min_weekday_trips step
    f_output                 \* rows written by the filter

pipeline_vars == <<pc, station_distance, gtfs_trips, route_stories, to_station,
                   start_date, end_date, stops_near_stations,
                   extended_route_stories, extended_routes, stop_and_stations,
                   exported>>
filter_vars == <<f_pc, f_input, f_args, f_surviving, f_nearest, f_output>>
vars == <<pipeline_vars, filter_vars>>

None == "None"
NoRoute == 0                 \* ExtendedRouteStory.route before a trip is linked

(***************************************************************************)
(* Bounds of the explored inputs.                                          *)
(***************************************************************************)
MaxLen == 3          \* longest stop pattern of the projector runs
MaxTrips == 2        \* most trips in the feed of the aggregation runs
MaxRows == 3         \* most rows of a table given to the filter
MaxRepeat == 8       \* most trips of one route story in the rounding runs

StopIds == {1, 2, 3}             \* bus stops a pattern may call at
StationIds == {8, 9}             \* train stations
Offsets == {0, 120, 300}         \* arrival offsets, seconds
RouteIds == {1, 2}
Dates == {3, 4}                  \* a Thursday and a Friday

(***************************************************************************)
(* Generic helpers.                                                        *)
(***************************************************************************)
RECURSIVE SeqsUpTo(_, _)
SeqsUpTo(S, n) ==
    IF n = 0 THEN {<<>>}
    ELSE LET shorter == SeqsUpTo(S, n - 1)
         IN  shorter \cup {Append(s, x) : s \in {t \in shorter : Len(t) = n - 1}, x \in S}

Reverse(s) == [i \in 1..Len(s) |-> s[Len(s) + 1 - i]]

Range(s) == {s[i] : i \in 1..Len(s)}

\* position of the entry with key k in an insertion-ordered dict, 0 if absent
IndexOfKey(d, k) ==
    IF \E i \in 1..Len(d) : d[i].key = k
    THEN CHOOSE i \in 1..Len(d) : d[i].key = k
    ELSE 0

(***************************************************************************)
(* Natural numbers of any size, as little-endian sequences of limbs in     *)
(* base LimbBase with no leading zero limb (zero is <<>>).  They carry the *)
(* 53-bit significands of Python floats and the intermediate results of    *)
(* the float operations.                                                   *)
(***************************************************************************)
LimbBits == 15
LimbBase == 32768
Pow2Table == <<1, 2, 4, 8, 16, 32, 64, 128, 256, 512, 1024, 2048, 4096, 8192, 16384>>
Pow2(k) == Pow2Table[k + 1]

RECURSIVE BNTrim(_)
BNTrim(a) ==
    IF Len(a) = 0 \/ a[Len(a)] # 0 THEN a ELSE BNTrim(SubSeq(a, 1, Len(a) - 1))

RECURSIVE BNFromNat(_)
BNFromNat(n) == IF n = 0 THEN <<>> ELSE <<n % LimbBase>> \o BNFromNat(n \div LimbBase)

\* the value of a number of at most two limbs
BNToNat(a) ==
    IF Len(a) = 0 THEN 0 ELSE IF Len(a) = 1 THEN a[1] ELSE a[1] + LimbBase * a[2]

BNLimb(a, i) == IF i <= Len(a) THEN a[i] ELSE 0

RECURSIVE BNCmpFrom(_, _, _)
BNCmpFrom(a, b, i) ==
    IF i = 0 THEN 0
    ELSE IF a[i] < b[i] THEN -1
    ELSE IF a[i] > b[i] THEN 1
    ELSE BNCmpFrom(a, b, i - 1)

\* -1, 0, 1 as a < b, a = b, a > b
BNCmp(a, b) ==
    IF Len(a) < Len(b) THEN -1
    ELSE IF Len(a) > Len(b) THEN 1
    ELSE BNCmpFrom(a, b, Len(a))

RECURSIVE BNAddFrom(_, _, _, _)
BNAddFrom(a, b, i, carry) ==
    IF i > Len(a) /\ i > Len(b) THEN (IF carry = 0 THEN <<>> ELSE <<carry>>)
    ELSE LET s == BNLimb(a, i) + BNLimb(b, i) + carry
         IN  <<s % LimbBase>> \o BNAddFrom(a, b, i + 1, s \div LimbBase)

BNAdd(a, b) == BNAddFrom(a, b, 1, 0)

RECURSIVE BNSubFrom(_, _, _, _)
BNSubFrom(a, b, i, borrow) ==
    IF i > Len(a) THEN <<>>
    ELSE LET s == a[i] - BNLimb(b, i) - borrow
         IN  <<IF s < 0 THEN s + LimbBase ELSE s>>
                 \o BNSubFrom(a, b, i + 1, IF s < 0 THEN 1 ELSE 0)

\* a - b, for a >= b
BNSub(a, b) == BNTrim(BNSubFrom(a, b, 1, 0))

RECURSIVE BNMulSmallFrom(_, _, _, _)
BNMulSmallFrom(a, k, i, carry) ==
    IF i > Len(a) THEN (IF carry = 0 THEN <<>> ELSE <<carry>>)
    ELSE LET p == a[i] * k + carry
         IN  <<p % LimbBase>> \o BNMulSmallFrom(a, k, i + 1, p \div LimbBase)

\* a * k, for 0 <= k < LimbBase
BNMulSmall(a, k) == IF k = 0 THEN <<>> ELSE BNMulSmallFrom(a, k, 1, 0)

BNShiftLimbs(a, n) == IF Len(a) = 0 THEN <<>> ELSE [i \in 1..n |-> 0] \o a

RECURSIVE BNMulFrom(_, _, _)
BNMulFrom(a, b, i) ==
    IF i > Len(b) THEN <<>>
    ELSE BNAdd(BNMulSmall(a, b[i]), BNShiftLimbs(BNMulFrom(a, b, i + 1), 1))

BNMul(a, b) == BNMulFrom(a, b, 1)

\* a * 2^bits
BNShl(a, bits) == BNShiftLimbs(BNMulSmall(a, Pow2(bits % LimbBits)), bits \div LimbBits)

RECURSIVE BNDivSmallFrom(_, _, _, _)
BNDivSmallFrom(a, k, i, rem) ==
    IF i = 0 THEN [q |-> <<>>, r |-> rem]
    ELSE LET cur == rem * LimbBase + a[i]
             rest == BNDivSmallFrom(a, k, i - 1, cur % k)
         IN  [q |-> Append(rest.q, cur \div k), r |-> rest.r]

\* quotient and remainder of a by k, for 0 < k < LimbBase
BNDivSmall(a, k) ==
    LET d == BNDivSmallFrom(a, k, Len(a), 0)
    IN  [q |-> BNTrim(d.q), r |-> BNFromNat(d.r)]

\* a \div 2^bits
BNShr(a, bits) ==
    IF bits \div LimbBits >= Len(a) THEN <<>>
    ELSE BNDivSmall(SubSeq(a, bits \div LimbBits + 1, Len(a)), Pow2(bits % LimbBits)).q

RECURSIVE BitLenSmall(_)
BitLenSmall(n) == IF n = 0 THEN 0 ELSE 1 + BitLenSmall(n \div 2)

BNBitLen(a) ==
    IF Len(a) = 0 THEN 0 ELSE LimbBits * (Len(a) - 1) + BitLenSmall(a[Len(a)])

BNIsOdd(a) == Len(a) > 0 /\ a[1] % 2 = 1

\* the greatest t in lo..hi with d * t <= cur, by bisection
RECURSIVE BNQuotientLimb(_, _, _, _)
BNQuotientLimb(cur, d, lo, hi) ==
    IF lo = hi THEN lo
    ELSE LET mid == (lo + hi + 1) \div 2
         IN  IF BNCmp(BNMulSmall(d, mid), cur) <= 0
             THEN BNQuotientLimb(cur, d, mid, hi)
             ELSE BNQuotientLimb(cur, d, lo, mid - 1)

\* schoolbook division, one limb of n at a time from the highest: cur is the
\* remainder so far followed by limb i of n, and t the quotient's limb i
RECURSIVE BNLongDiv(_, _, _, _)

BNLongDivAppend(rest, t) == [q |-> Append(rest.q, t), r |-> rest.r]

BNLongDivLimb(n, d, i, cur, t) ==
    BNLongDivAppend(BNLongDiv(n, d, i - 1, BNSub(cur, BNMulSmall(d, t))), t)

BNLongDivStep(n, d, i, cur) ==
    BNLongDivLimb(n, d, i, cur, BNQuotientLimb(cur, d, 0, LimbBase - 1))

BNLongDiv(n, d, i, rem) ==
    IF i = 0 THEN [q |-> <<>>, r |-> rem]
    ELSE BNLongDivStep(n, d, i, BNTrim(<<n[i]>> \o rem))

BNTrimQuotient(qr) == [q |-> BNTrim(qr.q), r |-> qr.r]

\* quotient and remainder of n by d, for d > 0
BNDivMod(n, d) ==
    IF Len(d) = 1 THEN BNDivSmall(n, d[1])
    ELSE BNTrimQuotient(BNLongDiv(n, d, Len(n), <<>>))

RECURSIVE TrailingZerosSmall(_)
TrailingZerosSmall(n) == IF n % 2 = 1 THEN 0 ELSE 1 + TrailingZerosSmall(n \div 2)

\* the number of trailing zero bits of a > 0
RECURSIVE BNTrailingZeros(_, _)
BNTrailingZeros(a, i) ==
    IF a[i] = 0 THEN LimbBits + BNTrailingZeros(a, i + 1) ELSE TrailingZerosSmall(a[i])

(***************************************************************************)
(* Python floats: IEEE 754 binary64, round to nearest, ties to even.  A    *)
(* finite float is sign * mant * 2^exp with sign 1 or -1, exp <= 0, and    *)
(* mant odd unless exp = 0; each float has one such form (0.0 and -0.0     *)
(* differ in sign).  The exponent range is not bounded: no operand here is *)
(* near the overflow or the subnormal range.                               *)
(***************************************************************************)
SignificandBits == 53

Float(sign, mant, exp) == [sign |-> sign, mant |-> mant, exp |-> exp]

Abs(n) == IF n < 0 THEN -n ELSE n
Sign(n) == IF n < 0 THEN -1 ELSE 1

\* float(n) of an int n
FloatFromInt(n) ==
    IF n = 0 THEN Float(1, <<>>, 0)
    ELSE IF 0 < n /\ n < LimbBase THEN Float(1, <<n>>, 0)
    ELSE Float(Sign(n), BNFromNat(Abs(n)), 0)

FloatIsZero(a) == Len(a.mant) = 0

\* sign * m * 2^e in the form above, for any m and e; tz is the number of
\* trailing zero bits of m
FloatCanonShift(sign, m, e, tz) ==
    IF tz < -e THEN Float(sign, BNShr(m, tz), e + tz) ELSE Float(sign, BNShr(m, -e), 0)

FloatCanon(sign, m, e) ==
    IF Len(m) = 0 THEN Float(sign, <<>>, 0)
    ELSE IF e >= 0 THEN Float(sign, BNShl(m, e), 0)
    ELSE FloatCanonShift(sign, m, e, BNTrailingZeros(m, 1))

\* the float nearest to sign * (n / d) * 2^e, ties to even; d > 0.  The
\* quotient of n * 2^k by d is taken with k such that it has at least
\* SignificandBits + 2 bits; its top SignificandBits bits are m0, and the bits
\* dropped, with the remainder as a sticky bit, decide the rounding.
FloatRoundDecide(sign, m0, c, sticky, e) ==
    FloatCanon(sign,
               IF c > 0 \/ (c = 0 /\ (sticky \/ BNIsOdd(m0))) THEN BNAdd(m0, <<1>>) ELSE m0,
               e)

FloatRoundTop(sign, q, m0, sticky, e, drop) ==
    FloatRoundDecide(sign, m0,
                     BNCmp(BNSub(q, BNShl(m0, drop)), BNShl(<<1>>, drop - 1)),
                     sticky, e + drop)

FloatRoundDrop(sign, q, sticky, e, drop) ==
    FloatRoundTop(sign, q, BNShr(q, drop), sticky, e, drop)

FloatRoundQuotient(sign, qr, e) ==
    FloatRoundDrop(sign, qr.q, Len(qr.r) > 0, e, BNBitLen(qr.q) - SignificandBits)

FloatRoundScaled(sign, n, d, e, k) ==
    FloatRoundQuotient(sign, BNDivMod(BNShl(n, k), d), e - k)

FloatRoundScale(want) == IF want > 0 THEN want ELSE 0

FloatRound(sign, n, d, e) ==
    IF Len(n) = 0 THEN Float(sign, <<>>, 0)
    ELSE FloatRoundScaled(sign, n, d, e,
                          FloatRoundScale(SignificandBits + 2 + BNBitLen(d) - BNBitLen(n)))

\* an integer-valued float of one limb, and its value
FloatIsSmall(a) == a.exp = 0 /\ Len(a.mant) <= 1
FloatSmall(a) == IF Len(a.mant) = 0 THEN 0 ELSE a.sign * a.mant[1]

\* a + b; x and y are the magnitudes in units of 2^e, c compares them
FloatAddSigned(sa, sb, x, y, e, c) ==
    IF sa # sb /\ c = 0 THEN Float(1, <<>>, 0)
    ELSE FloatRound(IF sa = sb \/ c > 0 THEN sa ELSE sb,
                    IF sa = sb THEN BNAdd(x, y) ELSE IF c > 0 THEN BNSub(x, y) ELSE BNSub(y, x),
                    <<1>>, e)

FloatAddAligned(sa, sb, x, y, e) == FloatAddSigned(sa, sb, x, y, e, BNCmp(x, y))

FloatAddScaled(a, b, e) ==
    FloatAddAligned(a.sign, b.sign, BNShl(a.mant, a.exp - e), BNShl(b.mant, b.exp - e), e)

FloatAddRounded(a, b) == FloatAddScaled(a, b, IF a.exp < b.exp THEN a.exp ELSE b.exp)

FloatAdd(a, b) ==
    IF Len(a.mant) = 0 /\ Len(b.mant) = 0
    THEN (IF a.sign = -1 /\ b.sign = -1 THEN a ELSE Float(1, <<>>, 0))
    ELSE IF Len(a.mant) = 0 THEN b
    ELSE IF Len(b.mant) = 0 THEN a
    ELSE IF a.exp = 0 /\ b.exp = 0 /\ Len(a.mant) = 1 /\ Len(b.mant) = 1
    THEN LET sum == FloatSmall(a) + FloatSmall(b)
         IN  IF sum # 0 THEN FloatFromInt(sum) ELSE Float(1, <<>>, 0)
    ELSE FloatAddRounded(a, b)

\* a * b
FloatMulRounded(a, b) ==
    FloatRound(a.sign * b.sign, BNMul(a.mant, b.mant), <<1>>, a.exp + b.exp)

FloatMul(a, b) ==
    IF FloatIsSmall(a) /\ FloatIsSmall(b)
    THEN LET product == FloatSmall(a) * FloatSmall(b)
         IN  IF product # 0 THEN FloatFromInt(product) ELSE FloatMulRounded(a, b)
    ELSE FloatMulRounded(a, b)

\* a / b, for b nonzero
FloatDivRounded(a, b) ==
    FloatRound(a.sign * b.sign,
               IF a.exp >= b.exp THEN BNShl(a.mant, a.exp - b.exp) ELSE a.mant,
               IF a.exp >= b.exp THEN b.mant ELSE BNShl(b.mant, b.exp - a.exp),
               0)

FloatDiv(a, b) ==
    IF /\ FloatIsSmall(a) /\ FloatIsSmall(b) /\ Len(a.mant) = 1 /\ Len(b.mant) = 1
       /\ a.mant[1] % b.mant[1] = 0
    THEN FloatFromInt(a.sign * b.sign * (a.mant[1] \div b.mant[1]))
    ELSE FloatDivRounded(a, b)

\* a * k and a / k of a float and an int: the int operand is converted first
FloatMulInt(a, k) ==
    IF a.exp = 0 /\ 0 < k /\ k < LimbBase /\ Len(a.mant) = 0
    THEN a
    ELSE IF a.exp = 0 /\ 0 < k /\ k < LimbBase /\ Len(a.mant) = 1 /\ a.mant[1] * k < LimbBase
    THEN [a EXCEPT !.mant = <<a.mant[1] * k>>]
    ELSE FloatMul(a, FloatFromInt(k))

FloatDivInt(a, k) ==
    IF a.exp = 0 /\ 0 < k /\ k < LimbBase /\ Len(a.mant) = 0
    THEN a
    ELSE IF a.exp = 0 /\ 0 < k /\ k < LimbBase /\ Len(a.mant) = 1 /\ a.mant[1] % k = 0
    THEN [a EXCEPT !.mant = <<a.mant[1] \div k>>]
    ELSE FloatDiv(a, FloatFromInt(k))

\* n / k of two ints: the correctly rounded quotient
IntTrueDiv(n, k) ==
    IF n = 0 /\ 0 < k THEN Float(1, <<>>, 0)
    ELSE IF 0 < n /\ n < LimbBase /\ 0 < k /\ n % k = 0
    THEN Float(1, <<n \div k>>, 0)
    ELSE FloatDiv(FloatFromInt(n), FloatFromInt(k))

\* a <= b
FloatLeqSigned(sign, c) == IF sign = 1 THEN c <= 0 ELSE c >= 0

FloatLeqScaled(a, b, e) ==
    FloatLeqSigned(a.sign, BNCmp(BNShl(a.mant, a.exp - e), BNShl(b.mant, b.exp - e)))

FloatLeq(a, b) ==
    IF FloatIsSmall(a) /\ FloatIsSmall(b) THEN FloatSmall(a) <= FloatSmall(b)
    ELSE IF FloatIsZero(a) /\ FloatIsZero(b) THEN TRUE
    ELSE IF FloatIsZero(a) THEN b.sign = 1
    ELSE IF FloatIsZero(b) THEN a.sign = -1
    ELSE IF a.sign # b.sign THEN a.sign = -1
    ELSE FloatLeqScaled(a, b, IF a.exp < b.exp THEN a.exp ELSE b.exp)

\* int(a // 60): the floor of the exact quotient
FloorOf(sign, qr) ==
    IF sign = 1 THEN BNToNat(qr.q)
    ELSE IF Len(qr.r) = 0 THEN -BNToNat(qr.q)
    ELSE -BNToNat(qr.q) - 1

FloorMinutes(a) ==
    IF FloatIsSmall(a) THEN FloatSmall(a) \div 60
    ELSE FloorOf(a.sign, BNDivMod(a.mant, BNShl(<<60>>, -a.exp)))

(***************************************************************************)
(* Module constants of station_access.py and of its collaborators.         *)
(***************************************************************************)
weekend_days == {4, 5}
weekdays == {0, 1, 2, 3, 6}
DayOfWeek(d) == d % 7
station_stop_distance == 300

(***************************************************************************)
(* HasFrequency                                                            *)
(***************************************************************************)
total_trips(x) == x.weekday_trips + x.weekend_trips

\* mutant: the weekend count is not carried over
add_trip_counts_weekday_only(self, other) ==
    [self EXCEPT !.weekday_trips = @ + other.weekday_trips]

add_trip_counts(self, other) ==
    [self EXCEPT !.weekday_trips = @ + other.weekday_trips,
                 !.weekend_trips = @ + other.weekend_trips]

ExtendedRouteStory(id, station_stops) ==
    [key |-> id, station_stops |-> station_stops, stop_and_station |-> <<>>,
     weekday_trips |-> 0, weekend_trips |-> 0, route |-> NoRoute]

ExtendedRoute(route_id) ==
    [key |-> route_id, weekday_trips |-> 0, weekend_trips |-> 0,
     stops_to_station_to_travel_time |-> <<>>]

StopAndStation(stop_id, station_id) ==
    [key |-> <<stop_id, station_id>>, stop_id |-> stop_id, station_id |-> station_id,
     routes |-> <<>>, weekday_trips |-> 0, weekend_trips |-> 0,
     travel_time |-> 0]

(***************************************************************************)
(* Inputs.                                                                 *)
(***************************************************************************)
StopRecord(stop_id, seq, offset) ==
    [stop_id |-> stop_id, stop_sequence |-> seq, arrival_offset |-> offset]

\* a pattern lists its stops by stop_sequence: 1, 2, 3, ...
PatternsOfLength(n) ==
    {[i \in 1..n |-> StopRecord(ids[i], i, offs[i])] :
        ids \in [1..n -> StopIds], offs \in [1..n -> Offsets]}

Patterns(maxLen) == UNION {PatternsOfLength(n) : n \in 1..maxLen}

\* two-stop stories with offsets 0 and 120, over the given stops
ShortStories(ids) ==
    {<<StopRecord(a, 1, 0), StopRecord(b, 2, 120)>> : a \in ids, b \in ids}

\* stop 1 is within the threshold of station 9 or exactly at it, stop 2 is near
\* station 8, stop 3 near station 9; a train station is its own nearest station
DistanceTables ==
    {[s \in StopIds \cup StationIds |->
        IF s \in StationIds THEN [station_id |-> s, distance |-> 0]
        ELSE IF s = 1 THEN [station_id |-> 9, distance |-> d1]
        ELSE IF s = 2 THEN [station_id |-> 8, distance |-> 100]
        ELSE [station_id |-> 9, distance |-> 200]] :
        d1 \in {100, 300}}

\* calendar windows of the feed: start_date <= end_date
Services == {x \in [start_date : Dates, end_date : Dates] : x.start_date <= x.end_date}

Trip(story, route, service) ==
    [route_story |-> story, route |-> route, service |-> service]

(***************************************************************************)
(* Stage 1: find_station_stops (include_trains = False)                    *)
(***************************************************************************)
near_stations(table, include_trains) ==
    {stop_id \in DOMAIN table :
        /\ table[stop_id].distance < station_stop_distance
        /\ (include_trains \/ stop_id # table[stop_id].station_id)}

find_station_stops ==
    /\ pc = "stage1"
    /\ stops_near_stations' =
          [stop_id \in near_stations(station_distance, FALSE) |-> station_distance[stop_id]]
    /\ pc' = "stage2"
    /\ UNCHANGED <<station_distance, gtfs_trips, route_stories, to_station, start_date,
                   end_date, extended_route_stories, extended_routes, stop_and_stations,
                   exported, filter_vars>>

(***************************************************************************)
(* Stage 2: route_story_train_station_stops                                *)
(***************************************************************************)
station_stops_of(story, near) ==
    SelectSeq(story, LAMBDA stop : stop.stop_id \in DOMAIN near)

\* the retained route stories, in the order of self.route_stories.values()
RECURSIVE extend_route_stories(_, _, _)
extend_route_stories(stories, near, id) ==
    IF id > Len(stories) THEN <<>>
    ELSE LET stops == station_stops_of(stories[id], near)
             rest == extend_route_stories(stories, near, id + 1)
         IN  IF Len(stops) > 0 THEN <<ExtendedRouteStory(id, stops)>> \o rest ELSE rest

route_story_train_station_stops ==
    /\ pc = "stage2"
    /\ extended_route_stories' = extend_route_stories(route_stories, stops_near_stations, 1)
    /\ pc' = "stage3"
    /\ UNCHANGED <<station_distance, gtfs_trips, route_stories, to_station, start_date,
                   end_date, stops_near_stations, extended_routes, stop_and_stations,
                   exported, filter_vars>>

(***************************************************************************)
(* Stage 3: route_story_stops_to_stations / stations_to_route_story_stop   *)
(* A scan returns the pairs appended so far and whether the assert failed. *)
(***************************************************************************)
\* mutants: the cursor also advances at the station stop itself
forward_advance_at_station(stop, next_station) ==
    stop.stop_sequence >= next_station.stop_sequence
backward_advance_at_station(stop, next_station) ==
    stop.stop_sequence <= next_station.stop_sequence

\* true when the scan advances its station cursor at this stop
forward_advance(stop, next_station) == stop.stop_sequence > next_station.stop_sequence
backward_advance(stop, next_station) == stop.stop_sequence < next_station.stop_sequence

\* mutant: the assert demands a strictly later station
forward_sorted_strict(stop, next_station) ==
    next_station.arrival_offset > stop.arrival_offset

\* the assert of each scan
forward_sorted(stop, next_station) == next_station.arrival_offset >= stop.arrival_offset
backward_sorted(stop, next_station) == next_station.arrival_offset <= stop.arrival_offset

RECURSIVE scan(_, _, _, _, _, _)
scan(stops, stations, forward, i, cursor, acc) ==
    IF i > Len(stops) THEN [pairs |-> acc, failed |-> FALSE]
    ELSE LET stop == stops[i]
             advance == IF forward THEN forward_advance(stop, stations[cursor])
                        ELSE backward_advance(stop, stations[cursor])
             c == IF advance THEN cursor + 1 ELSE cursor
         IN  IF c > Len(stations) THEN [pairs |-> acc, failed |-> FALSE]
             ELSE IF ~(IF forward THEN forward_sorted(stop, stations[c])
                       ELSE backward_sorted(stop, stations[c]))
                  THEN [pairs |-> acc, failed |-> TRUE]
                  ELSE scan(stops, stations, forward, i + 1, c,
                            Append(acc, <<stop, stations[c]>>))

route_story_stops_to_stations_one(story, station_stops) ==
    scan(story, station_stops, TRUE, 1, 1, <<>>)

stations_to_route_story_stop_one(story, station_stops) ==
    scan(Reverse(story), Reverse(station_stops), FALSE, 1, 1, <<>>)

project_one(story, station_stops, forward) ==
    IF forward THEN route_story_stops_to_stations_one(story, station_stops)
    ELSE stations_to_route_story_stop_one(story, station_stops)

\* the loop over self.extended_route_stories.values(); it ends at the first
\* failed assert, leaving the later route stories untouched
RECURSIVE project_all(_, _, _, _)
project_all(ext, stories, forward, i) ==
    IF i > Len(ext) THEN [ext |-> ext, failed |-> FALSE]
    ELSE LET r == project_one(stories[ext[i].key], ext[i].station_stops, forward)
             ext2 == [ext EXCEPT ![i].stop_and_station = r.pairs]
         IN  IF r.failed THEN [ext |-> ext2, failed |-> TRUE]
             ELSE project_all(ext2, stories, forward, i + 1)

projector ==
    /\ pc = "stage3"
    /\ LET r == project_all(extended_route_stories, route_stories, to_station, 1)
       IN  /\ extended_route_stories' = r.ext
           /\ pc' = IF r.failed THEN "AssertionError" ELSE "stage4"
    /\ UNCHANGED <<station_distance, gtfs_trips, route_stories, to_station, start_date,
                   end_date, stops_near_stations, extended_routes, stop_and_stations,
                   exported, filter_vars>>

(***************************************************************************)
(* Stage 4: route_story_frequency                                          *)
(***************************************************************************)
\* mutant: the generator stops before end_date
RECURSIVE date_range_exclusive(_, _)
date_range_exclusive(d, last) ==
    IF d < last THEN <<d>> \o date_range_exclusive(d + 1, last) ELSE <<>>

\* the generator date_range(): every d from start_date while d <= end_date
RECURSIVE date_range(_, _)
date_range(d, last) ==
    IF d <= last THEN <<d>> \o date_range(d + 1, last) ELSE <<>>

\* the condition of the generator expression that selects the trips
service_in_window(service, first, last) ==
    service.end_date >= first \/ service.start_date <= last

\* one pass of the inner loop over date_range() for one trip
RECURSIVE count_days(_, _, _)
count_days(story, days, i) ==
    IF i > Len(days) THEN story
    ELSE count_days(IF DayOfWeek(days[i]) \in weekdays
                    THEN [story EXCEPT !.weekday_trips = @ + 1]
                    ELSE [story EXCEPT !.weekend_trips = @ + 1],
                    days, i + 1)

RECURSIVE count_trips(_, _, _, _, _)
count_trips(ext, trips, first, last, t) ==
    IF t > Len(trips) THEN ext
    ELSE LET trip == trips[t]
             at == IndexOfKey(ext, trip.route_story)
         IN  IF service_in_window(trip.service, first, last) /\ at # 0
             THEN count_trips([ext EXCEPT ![at] = count_days(@, date_range(first, last), 1)],
                              trips, first, last, t + 1)
             ELSE count_trips(ext, trips, first, last, t + 1)

route_story_frequency ==
    /\ pc = "stage4"
    /\ extended_route_stories' =
          count_trips(extended_route_stories, gtfs_trips, start_date, end_date, 1)
    /\ pc' = "stage5"
    /\ UNCHANGED <<station_distance, gtfs_trips, route_stories, to_station, start_date,
                   end_date, stops_near_stations, extended_routes, stop_and_stations,
                   exported, filter_vars>>

(***************************************************************************)
(* Stage 5: route_story_to_route                                           *)
(***************************************************************************)
RECURSIVE link_routes(_, _, _)
link_routes(ext, trips, t) ==
    IF t > Len(trips) THEN ext
    ELSE LET at == IndexOfKey(ext, trips[t].route_story)
         IN  link_routes(IF at # 0 THEN [ext EXCEPT ![at].route = trips[t].route] ELSE ext,
                         trips, t + 1)

route_story_to_route ==
    /\ pc = "stage5"
    /\ extended_route_stories' = link_routes(extended_route_stories, gtfs_trips, 1)
    /\ pc' = "stage6"
    /\ UNCHANGED <<station_distance, gtfs_trips, route_stories, to_station, start_date,
                   end_date, stops_near_stations, extended_routes, stop_and_stations,
                   exported, filter_vars>>

(***************************************************************************)
(* Stage 6: route_stops_and_stations                                       *)
(***************************************************************************)
pair_key(pair, near) == <<pair[1].stop_id, near[pair[2].stop_id].station_id>>
pair_travel_time(pair) == pair[2].arrival_offset - pair[1].arrival_offset

\* defaultdict(lambda: 0): d[key] += amount
add_to(d, key, amount) ==
    LET at == IndexOfKey(d, key)
    IN  IF at = 0 THEN Append(d, [key |-> key, value |-> 0 + amount])
        ELSE [d EXCEPT ![at].value = @ + amount]

\* the inner loop over route_story.stop_and_station
RECURSIVE fold_pairs(_, _, _, _)
fold_pairs(route, story, near, i) ==
    IF i > Len(story.stop_and_station) THEN route
    ELSE LET pair == story.stop_and_station[i]
             amount == total_trips(story) * pair_travel_time(pair)
         IN  fold_pairs([route EXCEPT !.stops_to_station_to_travel_time =
                                          add_to(@, pair_key(pair, near), amount)],
                        story, near, i + 1)

\* the first loop; a route story no trip was linked to has route None, and
\* route_story.route.route_id raises AttributeError
RECURSIVE fold_route_stories(_, _, _, _)
fold_route_stories(routes, ext, near, i) ==
    IF i > Len(ext) THEN [routes |-> routes, error |-> None]
    ELSE IF ext[i].route = NoRoute THEN [routes |-> routes, error |-> "AttributeError"]
    ELSE LET at0 == IndexOfKey(routes, ext[i].route)
             rs == IF at0 = 0 THEN Append(routes, ExtendedRoute(ext[i].route)) ELSE routes
             at == IF at0 = 0 THEN Len(rs) ELSE at0
             counted == add_trip_counts(rs[at], ext[i])
         IN  fold_route_stories([rs EXCEPT ![at] = fold_pairs(counted, ext[i], near, 1)],
                                ext, near, i + 1)

\* value / weight for every entry of one dict: the sums and the weight are ints
divide_all(d, weight) == [i \in 1..Len(d) |-> [d[i] EXCEPT !.value = IntTrueDiv(@, weight)]]

\* the second loop: route.stops_to_station_to_travel_time[k] /= route.total_trips
RECURSIVE divide_routes(_, _)
divide_routes(routes, i) ==
    IF i > Len(routes) THEN [routes |-> routes, error |-> None]
    ELSE IF Len(routes[i].stops_to_station_to_travel_time) = 0 THEN divide_routes(routes, i + 1)
    ELSE IF total_trips(routes[i]) = 0 THEN [routes |-> routes, error |-> "ZeroDivisionError"]
    ELSE divide_routes([routes EXCEPT ![i].stops_to_station_to_travel_time =
                                          divide_all(@, total_trips(routes[i]))], i + 1)

route_stops_and_stations ==
    /\ pc = "stage6"
    /\ LET folded == fold_route_stories(<<>>, extended_route_stories, stops_near_stations, 1)
           divided == divide_routes(folded.routes, 1)
       IN  IF folded.error # None
           THEN extended_routes' = folded.routes /\ pc' = folded.error
           ELSE extended_routes' = divided.routes
                /\ pc' = IF divided.error # None THEN divided.error ELSE "stage7"
    /\ UNCHANGED <<station_distance, gtfs_trips, route_stories, to_station, start_date,
                   end_date, stops_near_stations, extended_route_stories,
                   stop_and_stations, exported, filter_vars>>

(***************************************************************************)
(* Stage 7: aggregate_by_stop                                              *)
(***************************************************************************)
\* the inner loop over extended_route.stops_to_station_to_travel_time.items()
RECURSIVE fold_route(_, _, _)
fold_route(sas, route, i) ==
    IF i > Len(route.stops_to_station_to_travel_time) THEN sas
    ELSE LET item == route.stops_to_station_to_travel_time[i]
             at0 == IndexOfKey(sas, item.key)
             s == IF at0 = 0 THEN Append(sas, StopAndStation(item.key[1], item.key[2])) ELSE sas
             at == IF at0 = 0 THEN Len(s) ELSE at0
             counted == add_trip_counts(s[at], route)
             \* a new entry holds the int 0, which += converts
             so_far == IF at0 = 0 THEN FloatFromInt(counted.travel_time)
                       ELSE counted.travel_time
         IN  fold_route([s EXCEPT ![at] =
                            [counted EXCEPT !.routes = Append(@, route.key),
                                            !.travel_time =
                                                FloatAdd(so_far, FloatMulInt(item.value, total_trips(route)))]],
                        route, i + 1)

RECURSIVE fold_routes(_, _, _)
fold_routes(sas, routes, i) ==
    IF i > Len(routes) THEN sas
    ELSE fold_routes(fold_route(sas, routes[i], 1), routes, i + 1)

\* the second loop: stop_and_station.travel_time /= stop_and_station.total_trips
RECURSIVE divide_stops(_, _)
divide_stops(sas, i) ==
    IF i > Len(sas) THEN [sas |-> sas, error |-> None]
    ELSE IF total_trips(sas[i]) = 0 THEN [sas |-> sas, error |-> "ZeroDivisionError"]
    ELSE divide_stops([sas EXCEPT ![i].travel_time = FloatDivInt(@, total_trips(sas[i]))], i + 1)

aggregate_by_stop ==
    /\ pc = "stage7"
    /\ LET divided == divide_stops(fold_routes(<<>>, extended_routes, 1), 1)
       IN  /\ stop_and_stations' = divided.sas
           /\ pc' = IF divided.error # None THEN divided.error ELSE "export"
    /\ UNCHANGED <<station_distance, gtfs_trips, route_stories, to_station, start_date,
                   end_date, stops_near_stations, extended_route_stories, extended_routes,
                   exported, filter_vars>>

(***************************************************************************)
(* export_stop_and_station: the columns computed from the aggregates       *)
(***************************************************************************)
export_row(s) ==
    [stop_id |-> s.stop_id, station_id |-> s.station_id,
     travel_time |-> FloorMinutes(s.travel_time),
     weekday_trips |-> s.weekday_trips, weekend_trips |-> s.weekend_trips,
     route_ids |-> s.routes]

export_stop_and_station ==
    /\ pc = "export"
    /\ exported' = [i \in 1..Len(stop_and_stations) |-> export_row(stop_and_stations[i])]
    /\ pc' = "done"
    /\ UNCHANGED <<station_distance, gtfs_trips, route_stories, to_station, start_date,
                   end_date, stops_near_stations, extended_route_stories, extended_routes,
                   stop_and_stations, filter_vars>>

(***************************************************************************)
(* Runs of the pipeline.                                                   *)
(***************************************************************************)
FilterIdle ==
    /\ f_pc = "idle"
    /\ f_input = <<>>
    /\ f_args = None
    /\ f_surviving = <<>>
    /\ f_nearest = <<>>
    /\ f_output = <<>>

PipelineIdle ==
    /\ pc = "idle"
    /\ station_distance = None
    /\ gtfs_trips = <<>>
    /\ route_stories = <<>>
    /\ to_station = TRUE
    /\ start_date = None
    /\ end_date = None
    /\ stops_near_stations = None
    /\ extended_route_stories = None
    /\ extended_routes = None
    /\ stop_and_stations = None
    /\ exported = None

Constructed ==
    /\ pc = "stage1"
    /\ station_distance \in DistanceTables
    /\ to_station \in BOOLEAN
    /\ start_date \in Dates
    /\ end_date \in Dates
    /\ stops_near_stations = None
    /\ extended_route_stories = None
    /\ extended_routes = None
    /\ stop_and_stations = None
    /\ exported = None
    /\ FilterIdle

Trips(stories, n) ==
    SeqsUpTo({Trip(p, r, sv) : p \in 1..Len(stories), r \in RouteIds, sv \in Services}, n)

\* one route story of up to MaxLen stops, a one-day window, and no trip or one
\* trip of route 1 in service on that day
ProjInit ==
    /\ Constructed
    /\ end_date = start_date
    /\ \E story \in Patterns(MaxLen) : route_stories = <<story>>
    /\ gtfs_trips \in {<<>>, <<Trip(1, 1, [start_date |-> start_date, end_date |-> end_date])>>}

\* two two-stop route stories over stops 1 and 2, and up to MaxTrips trips
AggInit ==
    /\ Constructed
    /\ \E a \in ShortStories({1, 2}), b \in ShortStories({1, 2}) : route_stories = <<a, b>>
    /\ gtfs_trips \in Trips(route_stories, MaxTrips)

Next ==
    \/ find_station_stops
    \/ route_story_train_station_stops
    \/ projector
    \/ route_story_frequency
    \/ route_story_to_route
    \/ route_stops_and_stations
    \/ aggregate_by_stop
    \/ export_stop_and_station

ProjSpec == ProjInit /\ [][Next]_vars
AggSpec == AggInit /\ [][Next]_vars

\* services that also carry the calendar's weekday-activity days: one that runs
\* on Thursdays only and one that runs on Fridays only
CalendarServices ==
    {[start_date |-> sv.start_date, end_date |-> sv.end_date, days |-> m] :
        sv \in Services, m \in {{3}, {4}}}

\* two two-stop route stories over stops 1 and 2, and up to MaxTrips trips of
\* route 1 with such services
FreqInit ==
    /\ Constructed
    /\ \E a \in ShortStories({1, 2}), b \in ShortStories({1, 2}) : route_stories = <<a, b>>
    /\ gtfs_trips \in
          SeqsUpTo({Trip(p, 1, sv) : p \in 1..Len(route_stories), sv \in CalendarServices},
                   MaxTrips)

FreqSpec == FreqInit /\ [][Next]_vars

RECURSIVE Repeat(_, _)
Repeat(x, n) == IF n = 0 THEN <<>> ELSE <<x>> \o Repeat(x, n - 1)

\* a story from stop 1, near no station, to stop 2, near station 8, t seconds on
StoryTo(t) == <<StopRecord(1, 1, 0), StopRecord(2, 2, t)>>

\* a story that leaves stop 2 for stop 1: it reaches no station from stop 1
StoryFrom(t) == <<StopRecord(2, 1, 0), StopRecord(1, 2, t)>>

\* a Monday-to-Wednesday window; two routes with two route stories each: one
\* taking 300 s from stop 1 to the station, the other taking 0 s or leaving the
\* station; every story has 1..MaxRepeat trips, all in service through the
\* window.  The route totals reach divisors that do not divide the sums, so the
\* quotients of stages 6 and 7 are rounded.
AvgInit ==
    /\ pc = "stage1"
    /\ station_distance \in {t \in DistanceTables : t[1].distance = 300}
    /\ to_station = TRUE
    /\ start_date = 1
    /\ end_date = 3
    /\ \E a \in {StoryTo(0), StoryFrom(120)}, b \in {StoryTo(0), StoryFrom(120)} :
           route_stories = <<a, StoryTo(300), b, StoryTo(300)>>
    /\ \E n \in [1..4 -> 1..MaxRepeat] :
           LET sv == [start_date |-> 1, end_date |-> 3]
           IN  gtfs_trips = Repeat(Trip(1, 1, sv), n[1]) \o Repeat(Trip(2, 1, sv), n[2])
                            \o Repeat(Trip(3, 2, sv), n[3]) \o Repeat(Trip(4, 2, sv), n[4])
    /\ stops_near_stations = None
    /\ extended_route_stories = None
    /\ extended_routes = None
    /\ stop_and_stations = None
    /\ exported = None
    /\ FilterIdle

AvgSpec == AvgInit /\ [][Next]_vars

(***************************************************************************)
(* filter_station_access_results.  A row carries the columns the filter    *)
(* reads; csv hands every value over as text and the filter reads a number *)
(* with int(), which for the integers the exporter wrote gives the number  *)
(* back.                                                                   *)
(***************************************************************************)
Row(stop_id, station_id, travel_time, weekday) ==
    [stop_id |-> stop_id, station_id |-> station_id, travel_time |-> travel_time,
     weekday_trips |-> weekday]

Rows ==
    {Row(s, st, t, w) : s \in {1, 2}, st \in StationIds, t \in {5, 10}, w \in {0, 25}}

FilterArgs ==
    [max_time_difference_from_station : {-1, 5},
     stations_to_include : {{}, {8}},          \* None and the empty set are both falsy
     stations_to_exclude : {{}, {9}},
     only_nearest_station : BOOLEAN,
     min_weekday_trips : {0, 25}]

filter_max_time(records, max_time) ==
    IF max_time # -1
    THEN SelectSeq(records, LAMBDA r : r.travel_time <= max_time)
    ELSE records

filter_include(records, include) ==
    IF include # {}
    THEN SelectSeq(records, LAMBDA r : r.station_id \in include)
    ELSE records

filter_exclude(records, exclude) ==
    IF exclude # {}
    THEN SelectSeq(records, LAMBDA r : r.station_id \notin exclude)
    ELSE records

\* mutants: the farther row replaces the nearer one; a tie replaces the row kept
nearest_replaces_farther(r, kept) == r.travel_time > kept.travel_time
nearest_replaces_on_tie(r, kept) == r.travel_time <= kept.travel_time

\* the condition under which stop_to_record[stop_id] = r is executed
nearest_replaces(r, kept) == r.travel_time < kept.travel_time

\* the loop building stop_to_record; the dict keeps a stop's first position
RECURSIVE stop_to_record(_, _, _)
stop_to_record(records, d, i) ==
    IF i > Len(records) THEN d
    ELSE LET r == records[i]
             at == IndexOfKey(d, r.stop_id)
         IN  stop_to_record(records,
                            IF at = 0 THEN Append(d, [key |-> r.stop_id, value |-> r])
                            ELSE IF nearest_replaces(r, d[at].value)
                                 THEN [d EXCEPT ![at].value = r]
                                 ELSE d,
                            i + 1)

filter_nearest(records, only_nearest) ==
    IF only_nearest
    THEN LET d == stop_to_record(records, <<>>, 1) IN [i \in 1..Len(d) |-> d[i].value]
    ELSE records

\* mutant: a row must exceed the minimum
filter_min_trips_strict(records, min_trips) ==
    SelectSeq(records, LAMBDA r : r.weekday_trips > min_trips)

filter_min_trips(records, min_trips) ==
    SelectSeq(records, LAMBDA r : r.weekday_trips >= min_trips)

\* lines 338-357: the records read, and the chain of filters over them
filter_records ==
    /\ f_pc = "read"
    /\ LET surviving ==
               filter_exclude(
                   filter_include(
                       filter_max_time(f_input, f_args.max_time_difference_from_station),
                       f_args.stations_to_include),
                   f_args.stations_to_exclude)
           nearest == filter_nearest(surviving, f_args.only_nearest_station)
       IN  /\ f_surviving' = surviving
           /\ f_nearest' = nearest
           /\ f_output' = filter_min_trips(nearest, f_args.min_weekday_trips)
    /\ f_pc' = "write"
    /\ UNCHANGED <<f_input, f_args, pipeline_vars>>

\* lines 360-377: the rows and the readme are written
filter_write ==
    /\ f_pc = "write"
    /\ f_pc' = "done"
    /\ UNCHANGED <<f_input, f_args, f_surviving, f_nearest, f_output, pipeline_vars>>

FilterInit ==
    /\ PipelineIdle
    /\ f_pc = "read"
    /\ f_input \in SeqsUpTo(Rows, MaxRows)
    /\ f_args \in FilterArgs
    /\ f_surviving = <<>>
    /\ f_nearest = <<>>
    /\ f_output = <<>>

FilterNext == filter_records \/ filter_write

FilterSpec == FilterInit /\ [][FilterNext]_vars

(***************************************************************************)
(* Properties.                                                             *)
(***************************************************************************)
AfterProjector == {"stage4", "stage5", "stage6", "stage7", "export", "done",
                   "AttributeError", "ZeroDivisionError"}
AfterFrequency == {"stage5", "stage6", "stage7", "export", "done",
                   "AttributeError", "ZeroDivisionError"}
AfterRouteAggregator == {"stage7", "export", "done"}
AfterStopAggregator == {"export", "done"}
AfterFilter == {"write", "done"}

RECURSIVE SumOver(_, _, _)
SumOver(s, F(_), i) == IF i > Len(s) THEN 0 ELSE F(s[i]) + SumOver(s, F, i + 1)

\* the route stories linked to a route
MembersOf(route_id) ==
    SelectSeq(extended_route_stories, LAMBDA story : story.route = route_id)

\* the signed travel times that the member stories project for a key
ProjectedTimes(route_id, key) ==
    UNION {{pair_travel_time(story.stop_and_station[i]) :
               i \in {j \in 1..Len(story.stop_and_station) :
                         pair_key(story.stop_and_station[j], stops_near_stations) = key}} :
           story \in Range(MembersOf(route_id))}

Between(v, S) ==
    /\ \E lo \in S : FloatLeq(FloatFromInt(lo), v)
    /\ \E hi \in S : FloatLeq(v, FloatFromInt(hi))

BetweenFloats(v, S) ==
    /\ \E lo \in S : FloatLeq(lo, v)
    /\ \E hi \in S : FloatLeq(v, hi)

RouteById(route_id) == extended_routes[IndexOfKey(extended_routes, route_id)]

RouteValues(entry) ==
    {LET times == RouteById(entry.routes[i]).stops_to_station_to_travel_time
     IN  times[IndexOfKey(times, entry.key)].value : i \in 1..Len(entry.routes)}

RouteLevelBounds ==
    pc \in AfterRouteAggregator =>
        \A r \in 1..Len(extended_routes) :
            \A k \in 1..Len(extended_routes[r].stops_to_station_to_travel_time) :
                LET item == extended_routes[r].stops_to_station_to_travel_time[k]
                IN  Between(item.value, ProjectedTimes(extended_routes[r].key, item.key))

StopLevelBounds ==
    pc \in AfterStopAggregator =>
        \A e \in 1..Len(stop_and_stations) :
            BetweenFloats(stop_and_stations[e].travel_time, RouteValues(stop_and_stations[e]))

\* C1: after the route aggregator every route-level travel time lies between the
\* least and the greatest travel time its member stories project for that
\* (stop_id, station_id), and after the stop aggregator every final travel time
\* lies between the least and the greatest route-level value of its routes.
WeightedAverageBounds == RouteLevelBounds /\ StopLevelBounds

\* the service window and the analysis window share a date
Overlaps(service, first, last) ==
    service.end_date >= first /\ service.start_date <= last

WeekdayDates(first, last) == {d \in first..last : DayOfWeek(d) \in weekdays}
WeekendDates(first, last) == {d \in first..last : DayOfWeek(d) \notin weekdays}

TripsOf(story_id) == SelectSeq(gtfs_trips, LAMBDA trip : trip.route_story = story_id)

OverlappingTripsOf(story_id) ==
    SelectSeq(TripsOf(story_id), LAMBDA trip : Overlaps(trip.service, start_date, end_date))

\* C2: after the frequency counter, a route story's accumulator holds the days of
\* the analysis window once for each of its trips whose service window overlaps
\* the analysis window, and nothing for a trip whose service window lies
\* entirely before or entirely after it.
OnlyOverlappingTripsCounted ==
    pc \in AfterFrequency =>
        \A i \in 1..Len(extended_route_stories) :
            LET story == extended_route_stories[i]
                n == Len(OverlappingTripsOf(story.key))
            IN  /\ story.weekday_trips = n * Cardinality(WeekdayDates(start_date, end_date))
                /\ story.weekend_trips = n * Cardinality(WeekendDates(start_date, end_date))

\* C4: whenever the route aggregator or the stop aggregator divides by a total
\* trip count, that count is at least 1, so the run never ends in a division by
\* zero.
DivisorAtLeastOne ==
    /\ pc # "ZeroDivisionError"
    /\ pc \in AfterRouteAggregator =>
          \A r \in 1..Len(extended_routes) :
              Len(extended_routes[r].stops_to_station_to_travel_time) > 0 =>
                  total_trips(extended_routes[r]) >= 1
    /\ pc \in AfterStopAggregator =>
          \A e \in 1..Len(stop_and_stations) : total_trips(stop_and_stations[e]) >= 1

weekday_of(x) == x.weekday_trips
weekend_of(x) == x.weekend_trips
route_weekday(route_id) == RouteById(route_id).weekday_trips
route_weekend(route_id) == RouteById(route_id).weekend_trips

\* C5: each ExtendedRoute's weekday and weekend counts are the sums of those of
\* the route stories linked to the route, every linked route story has its
\* ExtendedRoute, and each final (stop_id, station_id) entry's counts are the
\* sums of those of the routes listed in its routes.
TripCountsConserved ==
    /\ pc \in AfterRouteAggregator =>
          /\ \A i \in 1..Len(extended_route_stories) :
                 IndexOfKey(extended_routes, extended_route_stories[i].route) # 0
          /\ \A r \in 1..Len(extended_routes) :
                 LET members == MembersOf(extended_routes[r].key)
                 IN  /\ extended_routes[r].weekday_trips = SumOver(members, weekday_of, 1)
                     /\ extended_routes[r].weekend_trips = SumOver(members, weekend_of, 1)
    /\ pc \in AfterStopAggregator =>
          \A e \in 1..Len(stop_and_stations) :
              LET entry == stop_and_stations[e]
              IN  /\ entry.weekday_trips = SumOver(entry.routes, route_weekday, 1)
                  /\ entry.weekend_trips = SumOver(entry.routes, route_weekend, 1)

\* a finished run in which an entry has two contributing routes and both kinds
\* of day were counted
TripCountsConservedWitness ==
    /\ pc = "done"
    /\ \E e \in 1..Len(stop_and_stations) :
           /\ Len(stop_and_stations[e].routes) = 2
           /\ stop_and_stations[e].weekday_trips >= 2
           /\ stop_and_stations[e].weekend_trips >= 2

\* the stops of a route story are in non-decreasing arrival_offset order
OffsetSorted(story) ==
    \A i \in 1..Len(story) : \A j \in i..Len(story) :
        story[i].arrival_offset <= story[j].arrival_offset

\* the station stop of smallest stop_sequence that is >= the stop's own
NextStation(stop, stations) ==
    CHOOSE st \in Range(stations) :
        /\ st.stop_sequence >= stop.stop_sequence
        /\ \A other \in Range(stations) :
               other.stop_sequence >= stop.stop_sequence =>
                   st.stop_sequence <= other.stop_sequence

\* the station stop of largest stop_sequence that is <= the stop's own
PreviousStation(stop, stations) ==
    CHOOSE st \in Range(stations) :
        /\ st.stop_sequence <= stop.stop_sequence
        /\ \A other \in Range(stations) :
               other.stop_sequence <= stop.stop_sequence =>
                   st.stop_sequence >= other.stop_sequence

\* the stops that have a station to be paired with
ForwardAssigned(story, stations) ==
    SelectSeq(story, LAMBDA stop :
        stop.stop_sequence <= stations[Len(stations)].stop_sequence)

BackwardAssigned(story, stations) ==
    SelectSeq(story, LAMBDA stop : stop.stop_sequence >= stations[1].stop_sequence)

\* some stop of the story lies on the wrong side, in time, of the station it is
\* to be paired with
Misordered(story, stations, forward) ==
    IF forward
    THEN \E stop \in Range(ForwardAssigned(story, stations)) :
             NextStation(stop, stations).arrival_offset < stop.arrival_offset
    ELSE \E stop \in Range(BackwardAssigned(story, stations)) :
             PreviousStation(stop, stations).arrival_offset > stop.arrival_offset

Retained == 1..Len(extended_route_stories)
StoryOf(i) == route_stories[extended_route_stories[i].key]
StationsOf(i) == extended_route_stories[i].station_stops

\* C3 as stated: a run that gets past the projector has no retained route
\* story whose stops are out of arrival_offset order.
UnsortedStoryFaults ==
    pc \in AfterProjector => \A i \in Retained : OffsetSorted(StoryOf(i))

\* C3, amended: the projector ends in the assertion fault exactly when some
\* retained route story has a stop that it pairs with a station on the wrong
\* side of it in time (the station earlier than the stop in forward mode, later
\* in backward mode); the run then goes no further.
MisorderedStoryFaults ==
    pc \in AfterProjector \cup {"AssertionError"} =>
        (pc = "AssertionError" <=>
            \E i \in Retained : Misordered(StoryOf(i), StationsOf(i), to_station))

\* the assert has failed on a route story of at least two stops
MisorderedStoryFaultsWitness ==
    /\ pc = "AssertionError"
    /\ \E i \in Retained :
           /\ Len(StoryOf(i)) >= 2
           /\ Misordered(StoryOf(i), StationsOf(i), to_station)

\* C6: in forward mode the projector output of every retained route story lists,
\* in sequence order, each stop whose stop_sequence is at most the last station
\* stop's, paired with the station stop of smallest stop_sequence >= its own; a
\* station stop is paired with itself at travel time 0, and the stops after the
\* last station stop have no entry.
ForwardProjection ==
    (to_station /\ pc \in AfterProjector) =>
        \A i \in Retained :
            LET assigned == ForwardAssigned(StoryOf(i), StationsOf(i))
                out == extended_route_stories[i].stop_and_station
            IN  /\ Len(out) = Len(assigned)
                /\ \A k \in 1..Len(out) :
                       /\ out[k][1] = assigned[k]
                       /\ out[k][2] = NextStation(assigned[k], StationsOf(i))
                       /\ out[k][1] \in Range(StationsOf(i)) =>
                              (out[k][2] = out[k][1] /\ pair_travel_time(out[k]) = 0)

\* forward mode, a story of three stops: one before a station stop, the station
\* stop in the middle, and a trailing stop that gets no entry
ForwardProjectionWitness ==
    /\ to_station
    /\ pc = "stage4"
    /\ \E i \in Retained :
           /\ Len(StoryOf(i)) = 3
           /\ Len(StationsOf(i)) = 1
           /\ StationsOf(i)[1].stop_sequence = 2
           /\ Len(extended_route_stories[i].stop_and_station) = 2
           /\ pair_travel_time(extended_route_stories[i].stop_and_station[1]) = 300

\* C10: in backward mode the projector output of every retained route story has
\* exactly one entry for each stop whose stop_sequence is at least the first
\* station stop's, paired with the station stop of largest stop_sequence <= its
\* own (a station stop with itself); the stops before the first station stop
\* have no entry.
BackwardProjection ==
    (~to_station /\ pc \in AfterProjector) =>
        \A i \in Retained :
            LET assigned == BackwardAssigned(StoryOf(i), StationsOf(i))
                out == extended_route_stories[i].stop_and_station
            IN  /\ Len(out) = Len(assigned)
                /\ \A stop \in Range(assigned) :
                       \E k \in 1..Len(out) :
                           /\ out[k][1] = stop
                           /\ out[k][2] = PreviousStation(stop, StationsOf(i))
                /\ \A k \in 1..Len(out) :
                       out[k][1] \in Range(StationsOf(i)) => out[k][2] = out[k][1]

\* backward mode, a story of three stops with two station stops: a leading stop
\* with no entry, then a station stop, then a second station stop
BackwardProjectionWitness ==
    /\ ~to_station
    /\ pc = "stage4"
    /\ \E i \in Retained :
           /\ Len(StoryOf(i)) = 3
           /\ Len(StationsOf(i)) = 2
           /\ StationsOf(i)[1].stop_sequence = 2
           /\ Len(extended_route_stories[i].stop_and_station) = 2

\* positions in the surviving records of the rows of one stop
PositionsOf(stop_id) == {i \in 1..Len(f_surviving) : f_surviving[i].stop_id = stop_id}

\* those of them that have the stop's minimum travel_time
NearestPositionsOf(stop_id) ==
    {i \in PositionsOf(stop_id) :
        \A j \in PositionsOf(stop_id) :
            f_surviving[i].travel_time <= f_surviving[j].travel_time}

Min(S) == CHOOSE x \in S : \A y \in S : x <= y
Max(S) == CHOOSE x \in S : \A y \in S : x >= y

SurvivingStops == {f_surviving[i].stop_id : i \in 1..Len(f_surviving)}

\* C7: with only_nearest_station, every stop_id that has a row surviving the
\* max-time, include and exclude steps has exactly one row among those handed
\* to the min_weekday_trips step, and that row's travel_time is the least
\* travel_time of the stop's surviving rows.
NearestOnlyKeepsMinimum ==
    (f_pc \in AfterFilter /\ f_args.only_nearest_station) =>
        \A stop_id \in SurvivingStops :
            /\ Cardinality({i \in 1..Len(f_nearest) : f_nearest[i].stop_id = stop_id}) = 1
            /\ \A i \in 1..Len(f_nearest) :
                   f_nearest[i].stop_id = stop_id =>
                       /\ \E j \in PositionsOf(stop_id) : f_nearest[i] = f_surviving[j]
                       /\ \A j \in PositionsOf(stop_id) :
                              f_nearest[i].travel_time <= f_surviving[j].travel_time

\* a stop with a farther row first and a nearer row after it
NearestOnlyKeepsMinimumWitness ==
    /\ f_pc = "done"
    /\ f_args.only_nearest_station
    /\ \E i \in 1..Len(f_surviving) : \E j \in 1..Len(f_surviving) :
           /\ i < j
           /\ f_surviving[i].stop_id = f_surviving[j].stop_id
           /\ f_surviving[i].travel_time = 10
           /\ f_surviving[j].travel_time = 5
    /\ Len(f_nearest) >= 1

\* the row kept for a stop
KeptFor(stop_id) ==
    f_nearest[CHOOSE i \in 1..Len(f_nearest) : f_nearest[i].stop_id = stop_id]

\* C8 as stated: with only_nearest_station, when two or more surviving rows of a
\* stop share its minimum travel_time, the row kept is the last of them.
NearestTieKeepsLast ==
    (f_pc \in AfterFilter /\ f_args.only_nearest_station) =>
        \A stop_id \in SurvivingStops :
            Cardinality(NearestPositionsOf(stop_id)) >= 2 =>
                KeptFor(stop_id) = f_surviving[Max(NearestPositionsOf(stop_id))]

\* C8, amended: with only_nearest_station, when two or more surviving rows of a
\* stop share its minimum travel_time, the row kept is the first of them in
\* the traversal order.
NearestTieKeepsFirst ==
    (f_pc \in AfterFilter /\ f_args.only_nearest_station) =>
        \A stop_id \in SurvivingStops :
            Cardinality(NearestPositionsOf(stop_id)) >= 2 =>
                KeptFor(stop_id) = f_surviving[Min(NearestPositionsOf(stop_id))]

\* a stop whose minimum is shared by two rows that differ, after a farther row
NearestTieKeepsFirstWitness ==
    /\ f_pc = "done"
    /\ f_args.only_nearest_station
    /\ \E stop_id \in SurvivingStops :
           /\ Cardinality(NearestPositionsOf(stop_id)) = 2
           /\ Min(NearestPositionsOf(stop_id)) > Min(PositionsOf(stop_id))
           /\ f_surviving[Min(NearestPositionsOf(stop_id))] #
                  f_surviving[Max(NearestPositionsOf(stop_id))]

AllFiltersDisabled ==
    /\ f_args.max_time_difference_from_station = -1
    /\ f_args.stations_to_include = {}
    /\ f_args.stations_to_exclude = {}
    /\ ~f_args.only_nearest_station
    /\ f_args.min_weekday_trips = 0

\* C9: with every filter disabled, and no negative weekday_trips in the table,
\* the filter writes exactly the rows it read, unchanged and in their order.
FilterIdentity ==
    (/\ f_pc \in AfterFilter
     /\ AllFiltersDisabled
     /\ \A i \in 1..Len(f_input) : f_input[i].weekday_trips >= 0) =>
        f_output = f_input

\* a table of three rows, one of them with no weekday trips, written back
FilterIdentityWitness ==
    /\ f_pc = "done"
    /\ AllFiltersDisabled
    /\ Len(f_input) = 3
    /\ f_input[1].stop_id = f_input[2].stop_id
    /\ f_input[1].travel_time > f_input[2].travel_time
    /\ \E i \in 1..Len(f_input) : f_input[i].weekday_trips = 0
    /\ f_output = f_input

\* the trips of a route story that pass the frequency counter's test
CountedTripsOf(story_id) ==
    SelectSeq(TripsOf(story_id), LAMBDA trip :
        trip.service.end_date >= start_date \/ trip.service.start_date <= end_date)

\* the route stories that call at a stop near a station
RetainedIds ==
    {id \in 1..Len(route_stories) :
        \E i \in 1..Len(route_stories[id]) :
            route_stories[id][i].stop_id \in DOMAIN stops_near_stations}

\* C11: after the frequency counter, each retained route story's accumulator
\* is the number of its counted trips times the number of weekday dates and of
\* weekend dates d with start_date <= d <= end_date, a date's class being that
\* of its day of the week whatever days the trip's service runs on; the trips
\* of a route story that was not retained add to no accumulator.
TripDaysCounted ==
    pc \in AfterFrequency =>
        /\ {extended_route_stories[i].key : i \in Retained} = RetainedIds
        /\ \A i \in Retained :
               LET story == extended_route_stories[i]
                   n == Len(CountedTripsOf(story.key))
               IN  /\ story.weekday_trips =
                          n * Cardinality({d \in Dates : /\ start_date <= d
                                                         /\ d <= end_date
                                                         /\ DayOfWeek(d) \in weekdays})
                   /\ story.weekend_trips =
                          n * Cardinality({d \in Dates : /\ start_date <= d
                                                         /\ d <= end_date
                                                         /\ DayOfWeek(d) \notin weekdays})

\* a two-day window, a retained story with one trip whose service runs on
\* Fridays only and is counted on the Thursday too, and a trip of a story that
\* was not retained
TripDaysCountedWitness ==
    /\ pc = "stage5"
    /\ start_date < end_date
    /\ \E i \in Retained :
           /\ Len(TripsOf(extended_route_stories[i].key)) = 1
           /\ TripsOf(extended_route_stories[i].key)[1].service.days = {4}
           /\ extended_route_stories[i].weekday_trips = 1
           /\ extended_route_stories[i].weekend_trips = 1
    /\ \E t \in 1..Len(gtfs_trips) : gtfs_trips[t].route_story \notin RetainedIds
====
